---- MODULE Spec2Model ----
(***************************************************************************)
(* mcp-command-proxy: the CircularBuffer (src/src/utils/buffer.ts) and the *)
(* CommandRunner that owns one (the runner source, src/unnamed/part_000).  *)
(*                                                                         *)
(* BufferSpec drives a CircularBuffer on its own through push, clear and   *)
(* its three getters.  Spec drives a CommandRunner through start, stop and *)
(* write and through the data and exit callbacks of the children it has    *)
(* spawned.                                                                *)
(***************************************************************************)
EXTENDS Integers, Sequences, FiniteSets, TLC

\* ---------------------------------------------------------------- bounds
MaxCapacity == 3
MaxPushes == 5
MaxClears == 2
MaxOps == 4
MaxToolOps == 3
MaxLiveOps == 3
MaxLimit == 2

\* The values pushed into the stand-alone buffer.
Items == {"a", "b"}

\* An array slot that was never assigned (new Array(capacity) has only holes).
Hole == "<hole>"

Min(a, b) == IF a < b THEN a ELSE b

\* The last n elements of s, in order.
LastN(s, n) == SubSeq(s, Len(s) - Min(n, Len(s)) + 1, Len(s))

\* ------------------------------------------------------- CircularBuffer
\* constructor(capacity): buffer = new Array(capacity), head = tail = size = 0.
NewBuffer(capacity) ==
  [buffer |-> [i \in 0..(capacity - 1) |-> Hole],
   head |-> 0, tail |-> 0, size |-> 0, capacity |-> capacity]

\* new Array(capacity) of a negative capacity throws a RangeError, and so
\* does the constructor: no buffer comes to exist.
RangeError == [error |-> "RangeError: Invalid array length"]

\* new CircularBuffer(capacity)
CircularBuffer(capacity) ==
  IF capacity < 0 THEN RangeError ELSE NewBuffer(capacity)

\* Whether a construction returned a buffer.
Constructed(b) == "capacity" \in DOMAIN b

\* The number NaN, which x % 0 is, and which every sum and remainder of NaN
\* is again.
NaN == -1
JsInc(x) == IF x = NaN THEN NaN ELSE x + 1
JsMod(x, n) == IF x = NaN \/ n = 0 THEN NaN ELSE x % n

\* array[i] = item: an array takes an assignment at any index, inside its
\* length or not.
Assign(array, i, item) ==
  [j \in DOMAIN array \cup {i} |-> IF j = i THEN item ELSE array[j]]

\* push that overwrites the oldest slot without moving tail past it.
PushNoEvict(b, item) ==
  [b EXCEPT !.buffer = [@ EXCEPT ![b.head] = item],
            !.head = (b.head + 1) % b.capacity,
            !.size = IF b.size < b.capacity THEN b.size + 1 ELSE b.size]

\* push that counts every item, full or not.
PushAlwaysGrow(b, item) ==
  [b EXCEPT !.buffer = [@ EXCEPT ![b.head] = item],
            !.head = (b.head + 1) % b.capacity,
            !.size = b.size + 1]

\* push(item)
push(b, item) ==
  [b EXCEPT !.buffer = Assign(@, b.head, item),
            !.head = JsMod(JsInc(b.head), b.capacity),
            !.size = IF b.size < b.capacity THEN b.size + 1 ELSE b.size,
            !.tail = IF b.size < b.capacity
                     THEN b.tail
                     ELSE JsMod(JsInc(b.tail), b.capacity)]

\* getAll(): size slots read from tail on, wrapping at capacity.
getAll(b) ==
  [i \in 1..b.size |-> b.buffer[(b.tail + (i - 1)) % b.capacity]]

\* getSize()
getSize(b) == b.size

\* getCapacity()
getCapacity(b) == b.capacity

\* clear that rewinds the positions and forgets the count.
ClearKeepSize(b) == [b EXCEPT !.head = 0, !.tail = 0]

\* clear that forgets the count and the write position, not the read position.
ClearKeepsTail(b) == [b EXCEPT !.head = 0, !.size = 0]

\* clear(): the slots keep their old contents.
clear(b) == [b EXCEPT !.head = 0, !.tail = 0, !.size = 0]

\* -------------------------------------------------------- CommandRunner
\* enum ProcessStatus
RUNNING == "running"
STOPPED == "stopped"
ERROR == "error"

\* this.process = null
NoProcess == 0

\* options.logBufferSize || 300
DefaultLogBufferSize == 300

\* The logBuffer the constructor makes of options.logBufferSize, 0 standing
\* for an option left out as well: both are falsy.
runnerLogBuffer(logBufferSize) ==
  CircularBuffer(IF logBufferSize = 0 THEN DefaultLogBufferSize
                                      ELSE logBufferSize)

\* The command line the runner was constructed with: parts[0], and the rest
\* of the parts followed by options.args, joined by ' '.
Command == "test-cmd"
ArgsJoined == ""

\* What pty.spawn does: "ok", or the message of the Error it throws.
SpawnErrors == {"Spawn error", "ENOENT"}
SpawnOutcomes == {"ok"} \cup SpawnErrors

\* The strings passed to write(), and what the child's write() does with
\* them: "ok", or the message of the Error it throws.
WriteData == {"y", "\r"}
WriteErrors == {"Write error"}
WriteOutcomes == {"ok"} \cup WriteErrors

\* The chunks, exit codes and signals a child delivers (signal 0: none).
Chunks == {"output1", "output2", "output3"}
ExitCodes == {0, 1}
Signals == {0, 15}

\* `${error}` of an Error with the given message.
ErrorText(msg) == "Error: " \o msg

\* JSON.stringify of a string of WriteData: quoted, control characters escaped.
JSONStringify(d) == "\"" \o (IF d = "\r" THEN "\\r" ELSE d) \o "\""

\* `${signal || 'none'}`
SignalText(signal) == IF signal = 0 THEN "none" ELSE ToString(signal)

StartMsg == "Starting command: " \o Command \o " " \o ArgsJoined
ExitMsg(exitCode, signal) ==
  "Process exited with code " \o ToString(exitCode) \o " and signal "
    \o SignalText(signal)
StartErrorMsg(msg) == "Error starting command: " \o ErrorText(msg)
StopMsg == "Stopping command..."
AttemptMsg(data) == "Attempting to write key: " \o JSONStringify(data)
SuccessMsg == "Successfully wrote key"
FailedMsg(msg) == "Failed to write key: " \o ErrorText(msg)
RejectMsg == "Cannot write to process: not running"

\* interface LogEntry, without its timestamp (Date.now() at creation), which
\* no operation reads.
LogEntry(content, type) == [content |-> content, type |-> type]

\* One observable effect of a call, in the order the call made them: an
\* event handed to emit() ("log", "statusChange", "exit", "error"), or a call
\* on the pty library ("spawn", "kill", "write").
Effect(kind, val) == [kind |-> kind, val |-> val]

OfKind(trace, kind) == SelectSeq(trace, LAMBDA e : e.kind = kind)

\* A runner in the middle of a call is the record r:
\*   process, status, logBuffer   the CommandRunner's fields
\*   children                     the pty children spawned so far
\*   errorListener                whether an 'error' listener is registered
\*   appended                     every entry handed to logBuffer.push so far
\*   trace                        the effects of the current call so far
\*   changes                      the appends to the log and the assignments
\*                                of status the current call has made so far
\*   raised                       whether the call threw to its caller
\*   heard                        at each event of the current call, what a
\*                                listener would read from getLogs() and
\*                                getStatus() as the event reaches it

\* this.emit(kind, val): the listeners run at once, on the runner as it is at
\* this point of the call (x: the runner r, evaluated once).
emit(r, kind, val) ==
  CHOOSE after \in
    {[x EXCEPT !.trace = Append(@, Effect(kind, val)),
               !.heard = Append(@, [kind |-> kind, logs |-> getAll(x.logBuffer),
                                    status |-> x.status])] : x \in {r}} : TRUE

\* addLogEntry that tells the listeners before it stores the entry.
AddLogEntryEmitsFirst(r, content, type) ==
  LET r1 == emit(r, "log", LogEntry(content, type))
  IN  [r1 EXCEPT !.logBuffer = push(@, LogEntry(content, type)),
                 !.appended = Append(@, LogEntry(content, type)),
                 !.changes = Append(@, Effect("log", LogEntry(content, type)))]

\* addLogEntry(content, type): push the entry, then emit('log', entry).
addLogEntry(r, content, type) ==
  LET r1 == [r EXCEPT !.logBuffer = push(@, LogEntry(content, type)),
                      !.appended = Append(@, LogEntry(content, type)),
                      !.changes = Append(@, Effect("log", LogEntry(content, type)))]
  IN  emit(r1, "log", LogEntry(content, type))

\* setStatus that assigns and tells nobody.
SetStatusSilent(r, s) ==
  [r EXCEPT !.status = s,
            !.changes = Append(@, Effect("statusChange", s))]

\* setStatus(status): assign, then emit('statusChange', this.status).
setStatus(r, s) ==
  LET r1 == [r EXCEPT !.status = s,
                      !.changes = Append(@, Effect("statusChange", s))]
  IN  emit(r1, "statusChange", r1.status)

\* emit('exit', exitCode, signal)
emitExit(r, exitCode, signal) == emit(r, "exit", <<exitCode, signal>>)

\* emit('error', error): an EventEmitter with no 'error' listener throws the
\* error it is given.
emitError(r, msg) ==
  [emit(r, "error", msg) EXCEPT !.raised = (@ \/ ~r.errorListener)]

\* pty.spawn(...) returning a new child, assigned to this.process; the two
\* observers registered on it run for as long as it is alive. `announced` is
\* the number of entries the log had been handed when the child was spawned.
spawnChild(r) ==
  [r EXCEPT !.children = Append(@, [alive |-> TRUE, killed |-> FALSE,
                                    announced |-> Len(r.appended)]),
            !.process = Len(r.children) + 1,
            !.trace = Append(@, Effect("spawn", "ok"))]

\* A catch block that logs and emits the error and leaves status alone.
StartCatchKeepsStatus(r, msg) ==
  emitError(addLogEntry(r, StartErrorMsg(msg), "system"), msg)

\* The catch block of start().
startCatch(r, msg) ==
  emitError(addLogEntry(setStatus(r, ERROR), StartErrorMsg(msg), "system"), msg)

\* start() that spawns and never announces RUNNING.
StartNoStatus(r, outcome) ==
  LET r1 == addLogEntry(r, StartMsg, "system")
  IN  IF outcome = "ok"
      THEN spawnChild(r1)
      ELSE startCatch([r1 EXCEPT !.trace = Append(@, Effect("spawn", outcome))],
                      outcome)

\* start() that spawns the child first and announces the command afterwards.
StartSpawnsFirst(r, outcome) ==
  IF outcome = "ok"
  THEN setStatus(addLogEntry(spawnChild(r), StartMsg, "system"), RUNNING)
  ELSE startCatch(addLogEntry([r EXCEPT !.trace = Append(@, Effect("spawn", outcome))],
                              StartMsg, "system"),
                  outcome)

\* start() that empties the log of the previous run.
StartClearsLog(r, outcome) ==
  LET r1 == addLogEntry([r EXCEPT !.logBuffer = clear(@)], StartMsg, "system")
  IN  IF outcome = "ok"
      THEN setStatus(spawnChild(r1), RUNNING)
      ELSE startCatch([r1 EXCEPT !.trace = Append(@, Effect("spawn", outcome))],
                      outcome)

\* start()
start(r, outcome) ==
  LET r1 == addLogEntry(r, StartMsg, "system")
  IN  IF outcome = "ok"
      THEN setStatus(spawnChild(r1), RUNNING)
      ELSE startCatch([r1 EXCEPT !.trace = Append(@, Effect("spawn", outcome))],
                      outcome)

\* An exit observer that treats a nonzero exit code as an error.
OnExitToError(r, exitCode, signal) ==
  LET r1 == addLogEntry(r, ExitMsg(exitCode, signal), "system")
      r2 == setStatus(r1, IF exitCode = 0 THEN STOPPED ELSE ERROR)
      r3 == emitExit(r2, exitCode, signal)
  IN  [r3 EXCEPT !.process = NoProcess]

\* An exit observer that forgets to give up the handle.
OnExitKeepsHandle(r, exitCode, signal) ==
  LET r1 == addLogEntry(r, ExitMsg(exitCode, signal), "system")
      r2 == setStatus(r1, STOPPED)
  IN  emitExit(r2, exitCode, signal)

\* An exit observer that reports the exit before it records it.
OnExitEmitsFirst(r, exitCode, signal) ==
  LET r1 == addLogEntry(r, ExitMsg(exitCode, signal), "system")
      r2 == emitExit(r1, exitCode, signal)
      r3 == setStatus(r2, STOPPED)
  IN  [r3 EXCEPT !.process = NoProcess]

\* The observer start() registers with onExit.
onExit(r, exitCode, signal) ==
  LET r1 == addLogEntry(r, ExitMsg(exitCode, signal), "system")
      r2 == setStatus(r1, STOPPED)
      r3 == emitExit(r2, exitCode, signal)
  IN  [r3 EXCEPT !.process = NoProcess]

\* A data observer that files the chunk as a message of the runner's own.
OnDataAsSystem(r, data) == addLogEntry(r, data, "system")

\* The onExit observer when a listener on the runner answers the end of the
\* child by calling start() again: from its statusChange listener (at =
\* "statusChange", on hearing STOPPED) or from its exit listener (at =
\* "exit"). emit() runs listeners synchronously, so the nested start() runs
\* inside the observer, before its last statement.
onExitRestarting(r, exitCode, signal, at, outcome) ==
  LET r1 == addLogEntry(r, ExitMsg(exitCode, signal), "system")
      r2 == setStatus(r1, STOPPED)
      r3 == IF at = "statusChange" THEN start(r2, outcome) ELSE r2
      r4 == emitExit(r3, exitCode, signal)
      r5 == IF at = "exit" THEN start(r4, outcome) ELSE r4
  IN  [r5 EXCEPT !.process = NoProcess]

\* The observer start() registers with onData.
onData(r, data) == addLogEntry(r, data, "stdout")

\* this.process.kill(): a signal sent to the child, which exits when it will.
kill(r) ==
  [r EXCEPT !.children = [@ EXCEPT ![r.process].killed = TRUE],
            !.trace = Append(@, Effect("kill", r.process))]

\* stop() that announces the stop whatever the status.
StopUnguarded(r) ==
  LET r1 == addLogEntry(r, StopMsg, "system")
  IN  IF r.process # NoProcess THEN kill(r1) ELSE r1

\* stop() that takes the child for dead as soon as it has signalled it.
StopSynchronous(r) ==
  IF r.process # NoProcess /\ r.status = RUNNING
  THEN [setStatus(kill(addLogEntry(r, StopMsg, "system")), STOPPED)
          EXCEPT !.process = NoProcess]
  ELSE r

\* stop()
stop(r) ==
  IF r.process # NoProcess /\ r.status = RUNNING
  THEN kill(addLogEntry(r, StopMsg, "system"))
  ELSE r

\* this.process.write(data), which returns or throws.
processWrite(r, data) ==
  [r EXCEPT !.trace = Append(@, Effect("write", <<r.process, data>>))]

\* write() that looks at the handle alone, not at status.
WriteUnguarded(r, data, outcome) ==
  IF r.process # NoProcess
  THEN LET r1 == addLogEntry(r, AttemptMsg(data), "system")
           r2 == processWrite(r1, data)
       IN  IF outcome = "ok"
           THEN addLogEntry(r2, SuccessMsg, "system")
           ELSE addLogEntry(r2, FailedMsg(outcome), "system")
  ELSE addLogEntry(r, RejectMsg, "system")

\* write() without the try/catch around the child's write.
WriteUncaught(r, data, outcome) ==
  IF r.process # NoProcess /\ r.status = RUNNING
  THEN LET r1 == addLogEntry(r, AttemptMsg(data), "system")
           r2 == processWrite(r1, data)
       IN  IF outcome = "ok"
           THEN addLogEntry(r2, SuccessMsg, "system")
           ELSE [r2 EXCEPT !.raised = TRUE]
  ELSE addLogEntry(r, RejectMsg, "system")

\* write(data)
write(r, data, outcome) ==
  IF r.process # NoProcess /\ r.status = RUNNING
  THEN LET r1 == addLogEntry(r, AttemptMsg(data), "system")
           r2 == processWrite(r1, data)
       IN  IF outcome = "ok"
           THEN addLogEntry(r2, SuccessMsg, "system")
           ELSE addLogEntry(r2, FailedMsg(outcome), "system")
  ELSE addLogEntry(r, RejectMsg, "system")

\* ------------------------------------------------- getRecentLogs (tool)
\* The tool's inputs: limit (z.number(), default 100) and types (an array
\* of entry types, default all three).
Limits == 0..MaxLimit
EntryTypes == {"stdout", "stderr", "system"}
TypeSets == SUBSET EntryTypes

Max(a, b) == IF a > b THEN a ELSE b

\* array.slice(from): from index `from`, counted from the end when it is
\* negative, to the end of the array.
Slice(array, from) ==
  SubSeq(array,
         (IF from < 0 THEN Max(Len(array) + from, 0)
                      ELSE Min(from, Len(array))) + 1,
         Len(array))

\* array.filter(log => types.includes(log.type))
FilterTypes(array, types) == SelectSeq(array, LAMBDA log : log.type \in types)

\* The entries the getRecentLogs tool returns (as JSON text, which lists
\* them one for one): getLogs().filter(...).slice(-limit).
getRecentLogs(logs, limit, types) == Slice(FilterTypes(logs, types), 0 - limit)

\* ------------------------------------------------------------ variables
VARIABLES
  cb,        \* the stand-alone CircularBuffer
  given,     \* the capacity given to its constructor
  pushed,    \* the items pushed since construction or the last clear, in order
  clears,    \* the number of clear() calls so far
  npush,     \* the number of push() calls so far
  last,      \* the last buffer operation and what it returned
  process,       \* CommandRunner.process: a child's index, or NoProcess
  status,        \* CommandRunner.status
  logBuffer,     \* CommandRunner.logBuffer
  children,      \* the children pty.spawn has returned, in spawn order
  errorListener, \* whether an 'error' listener is registered on the runner
  appended,      \* every entry the runner has appended, in order
  call,          \* the last call or callback: its input, the state before it,
                 \* its effects in order, and whether it threw to its caller
  nops,          \* the number of calls and callbacks so far
  reply          \* the last getRecentLogs call: its inputs, the log it read
                 \* and the entries it returned

bufVars == <<cb, given, pushed, clears, npush, last>>

runVars == <<process, status, logBuffer, children, errorListener, appended,
             call, nops, reply>>

vars == <<bufVars, runVars>>

BufInit ==
  /\ given \in 1..MaxCapacity
  /\ cb = NewBuffer(given)
  /\ pushed = <<>>
  /\ clears = 0
  /\ npush = 0
  /\ last = [op |-> "new", pre |-> <<>>, ret |-> <<>>]

BufPush ==
  /\ npush < MaxPushes
  /\ \E item \in Items :
       /\ cb' = push(cb, item)
       /\ pushed' = Append(pushed, item)
       /\ last' = [op |-> "push", pre |-> getAll(cb), ret |-> <<>>]
  /\ npush' = npush + 1
  /\ UNCHANGED <<given, clears>>
  /\ UNCHANGED runVars

BufClear ==
  /\ clears < MaxClears
  /\ cb' = clear(cb)
  /\ pushed' = <<>>
  /\ clears' = clears + 1
  /\ last' = [op |-> "clear", pre |-> getAll(cb), ret |-> <<>>]
  /\ UNCHANGED <<given, npush>>
  /\ UNCHANGED runVars

BufGetAll ==
  /\ last' = [op |-> "getAll", pre |-> getAll(cb), ret |-> getAll(cb)]
  /\ UNCHANGED <<cb, given, pushed, clears, npush>>
  /\ UNCHANGED runVars

BufGetSize ==
  /\ last' = [op |-> "getSize", pre |-> getAll(cb), ret |-> <<getSize(cb)>>]
  /\ UNCHANGED <<cb, given, pushed, clears, npush>>
  /\ UNCHANGED runVars

BufGetCapacity ==
  /\ last' = [op |-> "getCapacity", pre |-> getAll(cb), ret |-> <<getCapacity(cb)>>]
  /\ UNCHANGED <<cb, given, pushed, clears, npush>>
  /\ UNCHANGED runVars

BufNext == BufPush \/ BufClear \/ BufGetAll \/ BufGetSize \/ BufGetCapacity

\* ------------------------------------------------ CommandRunner actions
\* constructor(options): logBuffer = new CircularBuffer(options.logBufferSize),
\* process = null, status = STOPPED, no listener registered.
RunInit ==
  /\ \E logBufferSize \in 1..MaxCapacity :
       logBuffer = runnerLogBuffer(logBufferSize)
  /\ process = NoProcess
  /\ status = STOPPED
  /\ children = <<>>
  /\ errorListener = FALSE
  /\ appended = <<>>
  /\ call = [op |-> "new", arg |-> <<>>,
             pre |-> [status |-> STOPPED, process |-> NoProcess, logs |-> <<>>,
                      children |-> <<>>, appended |-> 0],
             trace |-> <<>>, changes |-> <<>>, raised |-> FALSE,
             heard |-> <<>>]
  /\ nops = 0
  /\ reply = [op |-> "none", limit |-> 0, types |-> {}, retained |-> <<>>,
              logs |-> <<>>]

\* The runner as a call finds it.
Begin ==
  [process |-> process, status |-> status, logBuffer |-> logBuffer,
   children |-> children, errorListener |-> errorListener,
   appended |-> appended, trace |-> <<>>, changes |-> <<>>, raised |-> FALSE,
   heard |-> <<>>]

\* The runner as the call op(arg) leaves it.
Do(op, arg, r) ==
  /\ process' = r.process
  /\ status' = r.status
  /\ logBuffer' = r.logBuffer
  /\ children' = r.children
  /\ appended' = r.appended
  /\ call' = [op |-> op, arg |-> arg,
              pre |-> [status |-> status, process |-> process,
                       logs |-> getAll(logBuffer), children |-> children,
                       appended |-> Len(appended)],
              trace |-> r.trace, changes |-> r.changes, raised |-> r.raised,
              heard |-> r.heard]
  /\ nops' = nops + 1
  /\ UNCHANGED <<errorListener, reply>>
  /\ UNCHANGED bufVars

\* runner.on('error', listener)
OnError ==
  /\ ~errorListener
  /\ errorListener' = TRUE
  /\ UNCHANGED <<process, status, logBuffer, children, appended, call, nops,
                 reply>>
  /\ UNCHANGED bufVars

Start ==
  /\ nops < MaxOps
  /\ \E outcome \in SpawnOutcomes : Do("start", outcome, start(Begin, outcome))

Stop ==
  /\ nops < MaxOps
  /\ Do("stop", <<>>, stop(Begin))

Write ==
  /\ nops < MaxOps
  /\ \E data \in WriteData, outcome \in WriteOutcomes :
       Do("write", <<data, outcome>>, write(Begin, data, outcome))

\* A live child delivers a chunk of output.
Data ==
  /\ nops < MaxOps
  /\ \E c \in 1..Len(children), data \in Chunks :
       /\ children[c].alive
       /\ Do("data", <<c, data>>, onData(Begin, data))

\* A live child terminates and delivers its exit notification.
Exit ==
  /\ nops < MaxOps
  /\ \E c \in 1..Len(children), exitCode \in ExitCodes, signal \in Signals :
       /\ children[c].alive
       /\ Do("exit", <<c, exitCode, signal>>,
             onExit([Begin EXCEPT !.children[c].alive = FALSE], exitCode, signal))

\* A live child terminates, and a statusChange or exit listener restarts the
\* command from inside the exit notification.
ExitRestart ==
  /\ nops < MaxOps
  /\ \E c \in 1..Len(children), exitCode \in ExitCodes, signal \in Signals,
        at \in {"statusChange", "exit"}, outcome \in SpawnOutcomes :
       /\ children[c].alive
       /\ Do("exitRestart", <<c, exitCode, signal, at, outcome>>,
             onExitRestarting([Begin EXCEPT !.children[c].alive = FALSE],
                              exitCode, signal, at, outcome))

\* getLogs()
getLogs == getAll(logBuffer)

\* getStatus()
getStatus == status

RunNext == OnError \/ Start \/ Stop \/ Write \/ Data \/ Exit

Init == BufInit /\ RunInit

BufferSpec == Init /\ [][BufNext]_vars

Spec == Init /\ [][RunNext]_vars

\* A client calls the getRecentLogs tool.
GetRecentLogs ==
  /\ nops < MaxToolOps
  /\ \E limit \in Limits, types \in TypeSets :
       reply' = [op |-> "getRecentLogs", limit |-> limit, types |-> types,
                 retained |-> getLogs,
                 logs |-> getRecentLogs(getLogs, limit, types)]
  /\ nops' = nops + 1
  /\ UNCHANGED <<process, status, logBuffer, children, errorListener, appended,
                 call>>
  /\ UNCHANGED bufVars

\* The runner behind the server's getRecentLogs tool.
ToolNext == (nops < MaxToolOps /\ RunNext) \/ GetRecentLogs

ToolSpec == Init /\ [][ToolNext]_vars

\* A child that stop() has signalled terminates and delivers its exit
\* notification.
ExitKilled ==
  \E c \in 1..Len(children), exitCode \in ExitCodes, signal \in Signals :
    /\ children[c].alive
    /\ children[c].killed
    /\ Do("exit", <<c, exitCode, signal>>,
          onExit([Begin EXCEPT !.children[c].alive = FALSE], exitCode, signal))

\* The runner with children that do terminate once signalled: the exit
\* notification of a signalled child is not put off for ever.
LiveNext == (nops < MaxLiveOps /\ RunNext) \/ ExitKilled

\* ExitKilled always counts a callback, so a step of it is one that changes
\* nops.
LiveSpec == Init /\ [][LiveNext]_vars /\ WF_nops(ExitKilled)

\* Construction with any capacity, valid or not, and the buffer operations
\* on what was constructed.
Capacities == {-1} \cup (0..MaxCapacity)

ConstructInit ==
  /\ given \in Capacities
  /\ cb = CircularBuffer(given)
  /\ pushed = <<>>
  /\ clears = 0
  /\ npush = 0
  /\ last = [op |-> "new", pre |-> <<>>, ret |-> <<>>]
  /\ \E logBufferSize \in Capacities :
       logBuffer = runnerLogBuffer(logBufferSize)
  /\ process = NoProcess
  /\ status = STOPPED
  /\ children = <<>>
  /\ errorListener = FALSE
  /\ appended = <<>>
  /\ call = [op |-> "new", arg |-> <<>>,
             pre |-> [status |-> STOPPED, process |-> NoProcess, logs |-> <<>>,
                      children |-> <<>>, appended |-> 0],
             trace |-> <<>>, changes |-> <<>>, raised |-> FALSE,
             heard |-> <<>>]
  /\ nops = 0
  /\ reply = [op |-> "none", limit |-> 0, types |-> {}, retained |-> <<>>,
              logs |-> <<>>]

ConstructNext == Constructed(cb) /\ BufNext

ConstructSpec == ConstructInit /\ [][ConstructNext]_vars

\* The runner with listeners that may restart the command when it ends.
ReentrantNext == RunNext \/ ExitRestart

ReentrantSpec == Init /\ [][ReentrantNext]_vars

\* ------------------------------------------------------------- properties
\* The entries the last call appended, in order.
CallEntries == SubSeq(appended, call.pre.appended + 1, Len(appended))

\* getLogs() after the last call is getLogs() before it followed by the
\* entries the call appended, cut to the newest `capacity` of them.
LogsFollow ==
  getLogs = LastN(call.pre.logs \o CallEntries, getCapacity(logBuffer))

\* The number of statusChange events carrying s in a trace.
StatusChanges(trace, s) ==
  Len(SelectSeq(trace, LAMBDA e : e.kind = "statusChange" /\ e.val = s))

Contents(entries) == [i \in 1..Len(entries) |-> entries[i].content]

\* C1: after N pushes into a fresh buffer of capacity C, getAll() has length
\* min(N, C) and is the last min(N, C) pushed values in push order; a push
\* into a full buffer drops the oldest entry only and keeps the order of
\* the others.
C1_LastPushes ==
  clears = 0 =>
    /\ Len(getAll(cb)) = Min(npush, given)
    /\ getAll(cb) = LastN(pushed, Min(npush, given))
    /\ last.op = "push" =>
         getAll(cb) = Append(IF Len(last.pre) = given THEN Tail(last.pre)
                                                      ELSE last.pre,
                             pushed[npush])

C1_Witness ==
  /\ clears = 0
  /\ last.op = "push"
  /\ given >= 2
  /\ npush > given + 1
  /\ \E i, j \in 1..Len(getAll(cb)) : getAll(cb)[i] # getAll(cb)[j]

\* C2: in every state reached by push, clear and the getters,
\* 0 <= getSize() <= getCapacity(), getSize() is the length of getAll(), and
\* getCapacity() is the capacity given at construction; the getters return
\* these values.
C2_SizeWithinCapacity ==
  /\ 0 <= getSize(cb)
  /\ getSize(cb) <= getCapacity(cb)
  /\ getSize(cb) = Len(getAll(cb))
  /\ getCapacity(cb) = given
  /\ last.op = "getSize" => last.ret = <<Len(last.pre)>>
  /\ last.op = "getCapacity" => last.ret = <<given>>
  /\ last.op = "getAll" => Len(last.ret) <= given

C2_Witness ==
  /\ last.op = "getSize"
  /\ clears > 0
  /\ npush > given + 1
  /\ getSize(cb) = getCapacity(cb)

\* C3: clear(), from an empty, partly filled, full or wrapped buffer, leaves
\* getAll() empty, getSize() 0 and getCapacity() as constructed.
C3_ClearEmpties ==
  last.op = "clear" =>
    /\ getAll(cb) = <<>>
    /\ getSize(cb) = 0
    /\ getCapacity(cb) = given

C3_Witness ==
  /\ last.op = "clear"
  /\ clears = 1
  /\ given >= 2
  /\ npush > given
  /\ Len(last.pre) = given

\* C4: getLogs() is the last min(N, C) of the N entries the runner has
\* appended so far, in append order, C being the log capacity; with C = 2,
\* start and then the chunks output1, output2, output3 leave exactly
\* [output2, output3].
C4_LogsAreLastAppended ==
  /\ Len(getLogs) = Min(Len(appended), getCapacity(logBuffer))
  /\ getLogs = LastN(appended, getCapacity(logBuffer))
  /\ (/\ getCapacity(logBuffer) = 2
      /\ Contents(appended) = <<StartMsg, "output1", "output2", "output3">>)
       => Contents(getLogs) = <<"output2", "output3">>

C4_Witness ==
  /\ getCapacity(logBuffer) = 2
  /\ Contents(appended) = <<StartMsg, "output1", "output2", "output3">>
  /\ call.op = "data"

\* C5: a start() whose spawn succeeds leaves status RUNNING and emits
\* statusChange carrying RUNNING exactly once during the call.
C5_StartRuns ==
  (call.op = "start" /\ call.arg = "ok") =>
    /\ getStatus = RUNNING
    /\ StatusChanges(call.trace, RUNNING) = 1
    /\ Len(OfKind(call.trace, "statusChange")) = 1

C5_Witness ==
  /\ call.op = "start"
  /\ call.arg = "ok"
  /\ call.pre.status = ERROR
  /\ getStatus = RUNNING

\* C6: the exit callback, for any exit code and signal, appends one system
\* entry summarising them, sets status STOPPED, emits exactly one exit event
\* carrying that code and signal, and clears the process handle.
C6_ExitStops ==
  call.op = "exit" =>
    /\ CallEntries = <<LogEntry(ExitMsg(call.arg[2], call.arg[3]), "system")>>
    /\ LogsFollow
    /\ getStatus = STOPPED
    /\ OfKind(call.trace, "exit") = <<Effect("exit", <<call.arg[2], call.arg[3]>>)>>
    /\ process = NoProcess

C6_Witness ==
  /\ call.op = "exit"
  /\ call.arg[2] = 1
  /\ call.arg[3] = 15
  /\ call.pre.status = RUNNING
  /\ call.pre.process = call.arg[1]

\* C7: a start() whose spawn throws leaves status ERROR, has emitted one
\* error event carrying the thrown error, leaves as newest entry of getLogs()
\* a system entry with the error's text, and acquires no process handle
\* (the handle is what it was before the call and no child was created).
C7_SpawnFailure ==
  (call.op = "start" /\ call.arg \in SpawnErrors) =>
    /\ getStatus = ERROR
    /\ OfKind(call.trace, "error") = <<Effect("error", call.arg)>>
    /\ getLogs[Len(getLogs)]
         = LogEntry(StartErrorMsg(call.arg), "system")
    /\ LogsFollow
    /\ process = call.pre.process
    /\ children = call.pre.children

C7_Witness ==
  /\ call.op = "start"
  /\ call.arg = "ENOENT"
  /\ call.pre.status = STOPPED
  /\ errorListener
  /\ ~call.raised

\* C8: a write() while status is not RUNNING or no handle is owned never
\* calls the child's write, appends exactly one system entry, the rejection,
\* and leaves status and the process handle as they were.
C8_WriteRejected ==
  (call.op = "write"
     /\ (call.pre.status # RUNNING \/ call.pre.process = NoProcess)) =>
    /\ OfKind(call.trace, "write") = <<>>
    /\ CallEntries = <<LogEntry(RejectMsg, "system")>>
    /\ LogsFollow
    /\ getStatus = call.pre.status
    /\ process = call.pre.process

C8_Witness ==
  /\ call.op = "write"
  /\ call.pre.status = ERROR
  /\ call.pre.process # NoProcess
  /\ call.pre.children[call.pre.process].alive

\* C9: a stop() while status is STOPPED does nothing: no entry appended, no
\* event emitted, no signal sent, and status, process handle and log
\* contents are what they were.
C9_StopWhileStopped ==
  (call.op = "stop" /\ call.pre.status = STOPPED) =>
    /\ call.trace = <<>>
    /\ CallEntries = <<>>
    /\ getLogs = call.pre.logs
    /\ getStatus = call.pre.status
    /\ process = call.pre.process
    /\ children = call.pre.children
    /\ ~call.raised

C9_Witness ==
  /\ call.op = "stop"
  /\ call.pre.status = STOPPED
  /\ call.pre.logs # <<>>
  /\ \E c \in 1..Len(children) : children[c].alive

\* C10: a write(data) while status is RUNNING and a handle is owned calls
\* the child's write exactly once, with data as given, between an attempt
\* entry and exactly one success or failure system entry; it throws nothing
\* to its caller and leaves status as it was.
C10_WriteForwards ==
  (call.op = "write" /\ call.pre.status = RUNNING
     /\ call.pre.process # NoProcess) =>
    /\ OfKind(call.trace, "write")
         = <<Effect("write", <<call.pre.process, call.arg[1]>>)>>
    /\ CallEntries
         = <<LogEntry(AttemptMsg(call.arg[1]), "system"),
             LogEntry(IF call.arg[2] = "ok" THEN SuccessMsg
                                             ELSE FailedMsg(call.arg[2]),
                      "system")>>
    /\ LogsFollow
    /\ Len(call.trace) = 3
    /\ call.trace[1].kind = "log"
    /\ call.trace[2].kind = "write"
    /\ call.trace[3].kind = "log"
    /\ ~call.raised
    /\ getStatus = call.pre.status
    /\ process = call.pre.process

C10_Witness ==
  /\ call.op = "write"
  /\ call.pre.status = RUNNING
  /\ call.arg[1] = "\r"
  /\ call.arg[2] = "Write error"

\* The children whose exit notification has not been delivered yet.
Alive == {c \in 1..Len(children) : children[c].alive}

\* C11: every chunk a child delivers appends exactly one stdout entry whose
\* content is the chunk as delivered, as the newest entry of the log, and
\* emits one log event carrying it; the data callback changes neither status
\* nor the process handle.
C11_ChunkLogged ==
  call.op = "data" =>
    /\ CallEntries = <<LogEntry(call.arg[2], "stdout")>>
    /\ LogsFollow
    /\ getLogs[Len(getLogs)] = LogEntry(call.arg[2], "stdout")
    /\ Len(call.trace) = 1
    /\ call.trace[1] = Effect("log", LogEntry(call.arg[2], "stdout"))
    /\ getStatus = call.pre.status
    /\ process = call.pre.process

C11_Witness ==
  /\ call.op = "data"
  /\ call.arg[2] = "output2"
  /\ Len(call.pre.logs) = getCapacity(logBuffer)
  /\ call.pre.logs[Len(call.pre.logs)] = LogEntry("output1", "stdout")

\* C12 as stated: the initial status is STOPPED and every change of status
\* is STOPPED -> RUNNING or ERROR -> RUNNING by start, RUNNING -> STOPPED by
\* the exit callback, or RUNNING -> ERROR by a failure.
C12_DocumentedTransitions ==
  /\ nops = 0 => getStatus = STOPPED
  /\ call.pre.status # getStatus =>
       \/ call.op = "start" /\ call.pre.status \in {STOPPED, ERROR}
            /\ getStatus = RUNNING
       \/ call.op = "exit" /\ call.pre.status = RUNNING /\ getStatus = STOPPED
       \/ call.pre.status = RUNNING /\ getStatus = ERROR

\* C12, amended: the initial status is STOPPED; status is assigned at most
\* once in a call, and it changes only to RUNNING in a start() whose spawn
\* succeeds, to ERROR in a start() whose spawn throws, and to STOPPED in the
\* exit callback, from whatever status the call finds.
C12_Transitions ==
  /\ nops = 0 => getStatus = STOPPED
  /\ Len(OfKind(call.trace, "statusChange")) <= 1
  /\ call.pre.status # getStatus =>
       \/ call.op = "start" /\ call.arg = "ok" /\ getStatus = RUNNING
       \/ call.op = "start" /\ call.arg \in SpawnErrors /\ getStatus = ERROR
       \/ call.op = "exit" /\ getStatus = STOPPED

C12_Witness ==
  /\ call.op = "start"
  /\ call.arg \in SpawnErrors
  /\ call.pre.status = STOPPED
  /\ getStatus = ERROR

\* C13: whenever status is RUNNING the runner owns a process handle, in
\* every state between operations, also when a statusChange or exit
\* listener calls start() from inside the exit callback.
C13_RunningOwnsHandle == getStatus = RUNNING => process # NoProcess

\* C14: at most one child spawned by the runner is alive at any time, and a
\* live child is the one the runner holds the handle of.
C14_OneLiveChild ==
  /\ Cardinality(Alive) <= 1
  /\ \A c \in Alive : process = c

\* The log and statusChange events of a trace, in the order emitted.
Notifications(trace) ==
  SelectSeq(trace, LAMBDA e : e.kind \in {"log", "statusChange"})

\* C15: every append to the log emits exactly one log event carrying the
\* entry and every assignment of status emits exactly one statusChange
\* event carrying the new status, and the log and statusChange events of a
\* call are emitted in the order of the appends and assignments they report.
C15_EventPerChange ==
  LET ev == Notifications(call.trace)
  IN  /\ Len(ev) = Len(call.changes)
      /\ \A i \in 1..Len(ev) :
            /\ ev[i].kind = call.changes[i].kind
            /\ ev[i].val = call.changes[i].val
      /\ Len(OfKind(call.trace, "log")) = Len(CallEntries)
      /\ \A i \in 1..Len(CallEntries) :
            OfKind(call.trace, "log")[i].val = CallEntries[i]
      /\ call.pre.status # getStatus =>
            /\ OfKind(call.trace, "statusChange") # <<>>
            /\ OfKind(call.trace, "statusChange")
                 [Len(OfKind(call.trace, "statusChange"))].val = getStatus

C15_Witness ==
  /\ call.op = "start"
  /\ call.arg \in SpawnErrors
  /\ call.pre.status = RUNNING
  /\ Len(call.changes) = 3
  /\ call.changes[2] = Effect("statusChange", ERROR)
  /\ Notifications(call.trace)[3].kind = "log"

\* C16: no call and no callback throws to its caller.
C16_NothingRaised == ~call.raised

\* C17: a construction with capacity 0 or a negative capacity is rejected,
\* so no store, constructed directly or by a CommandRunner from its
\* logBufferSize, has a capacity below 1.
C17_CapacityAtLeastOne ==
  /\ given < 1 => ~Constructed(cb)
  /\ Constructed(cb) => getCapacity(cb) >= 1
  /\ Constructed(logBuffer) => getCapacity(logBuffer) >= 1

\* C18: for every limit N >= 0 and every set of types, getRecentLogs
\* returns the last min(N, k) of the k retained entries whose type is in
\* the set, in log order, and so never more than N entries.
C18_RecentLogs ==
  reply.op = "getRecentLogs" =>
    /\ reply.logs = LastN(FilterTypes(reply.retained, reply.types), reply.limit)
    /\ Len(reply.logs) <= reply.limit

\* C19: a stop() while status is RUNNING and a handle is owned appends
\* exactly one system entry, sends exactly one termination signal, to the
\* owned child, and returns with status RUNNING and the handle still owned;
\* status becomes STOPPED only in the exit callback.
C19_StopSignals ==
  /\ (call.op = "stop" /\ call.pre.status = RUNNING
        /\ call.pre.process # NoProcess) =>
       /\ CallEntries = <<LogEntry(StopMsg, "system")>>
       /\ LogsFollow
       /\ OfKind(call.trace, "kill") = <<Effect("kill", call.pre.process)>>
       /\ children[call.pre.process].killed
       /\ getStatus = RUNNING
       /\ process = call.pre.process
  /\ (call.pre.status # STOPPED /\ getStatus = STOPPED) => call.op = "exit"

C19_Witness ==
  /\ call.op = "stop"
  /\ call.pre.status = RUNNING
  /\ getStatus = RUNNING
  /\ process # NoProcess
  /\ children[process].alive
  /\ children[process].killed

\* C20: after a stop() while RUNNING with a handle owned, the exit
\* notification of the signalled child being delivered in the end, status
\* eventually is STOPPED with no handle owned, unless start() is called again
\* first.
C20_StopLeadsToStopped ==
  (call.op = "stop" /\ call.pre.status = RUNNING /\ call.pre.process # NoProcess)
    ~> ((getStatus = STOPPED /\ process = NoProcess) \/ call.op = "start")

C20_Witness ==
  /\ call.op = "exit"
  /\ call.pre.status = RUNNING
  /\ call.pre.process = call.arg[1]
  /\ call.pre.children[call.arg[1]].killed
  /\ getStatus = STOPPED
  /\ process = NoProcess

\* C21 as documented: every write() or stop() called while status is not
\* RUNNING appends a system entry, raises nothing and leaves status as it
\* was.
C21_InvalidLogged ==
  (call.op \in {"write", "stop"} /\ call.pre.status # RUNNING) =>
    /\ CallEntries # <<>>
    /\ \A i \in 1..Len(CallEntries) : CallEntries[i].type = "system"
    /\ ~call.raised
    /\ getStatus = call.pre.status

\* C21: a write() called while status is not RUNNING appends exactly one
\* system entry, the rejection; a stop() called while status is not RUNNING
\* appends no entry and emits no event; neither reaches a child, raises
\* anything or changes status or the process handle.
C21_InvalidOperation ==
  (call.op \in {"write", "stop"} /\ call.pre.status # RUNNING) =>
    /\ CallEntries = IF call.op = "write"
                     THEN <<LogEntry(RejectMsg, "system")>>
                     ELSE <<>>
    /\ LogsFollow
    /\ Len(call.trace) = Len(CallEntries)
    /\ ~call.raised
    /\ getStatus = call.pre.status
    /\ process = call.pre.process
    /\ children = call.pre.children

C21_Witness ==
  /\ call.op = "stop"
  /\ call.pre.status = ERROR
  /\ call.pre.process # NoProcess
  /\ children[call.pre.process].alive
  /\ ~children[call.pre.process].killed
  /\ CallEntries = <<>>

\* C22: every start() appends its announcement before it attempts the
\* spawn, whether the spawn succeeds or fails, so that the announcement of a
\* run is in the log before every entry a callback of that run's child
\* appends; a start() whose spawn fails then emits statusChange(ERROR),
\* appends the error entry and emits the error event, in that order.
C22_AnnouncedBeforeSpawn ==
  /\ call.op = "start" =>
       /\ Len(call.trace) >= 2
       /\ call.trace[1].kind = "log"
       /\ call.trace[1].val = LogEntry(StartMsg, "system")
       /\ call.trace[2].kind = "spawn"
       /\ call.trace[2].val = call.arg
       /\ appended[call.pre.appended + 1] = LogEntry(StartMsg, "system")
       /\ call.arg # "ok" =>
            /\ Len(call.trace) = 5
            /\ call.trace[3].kind = "statusChange"
            /\ call.trace[3].val = ERROR
            /\ call.trace[4].kind = "log"
            /\ call.trace[4].val = LogEntry(StartErrorMsg(call.arg), "system")
            /\ call.trace[5].kind = "error"
            /\ call.trace[5].val = call.arg
  /\ \A c \in 1..Len(children) :
       /\ children[c].announced >= 1
       /\ appended[children[c].announced] = LogEntry(StartMsg, "system")
  /\ call.op \in {"data", "exit"} =>
       /\ CallEntries # <<>>
       /\ call.pre.appended >= children[call.arg[1]].announced

C22_Witness ==
  /\ call.op = "start"
  /\ call.arg \in SpawnErrors
  /\ Len(call.trace) = 5
  /\ Len(call.pre.children) >= 1
  /\ call.pre.appended > call.pre.children[1].announced

\* C23: a start() whose spawn succeeds, called while status is STOPPED or
\* ERROR, makes status RUNNING with a handle on a child spawned by this
\* call, and removes nothing from the log: the log is what it was with the
\* announcement appended, less only what the capacity evicts.
C23_Restart ==
  (call.op = "start" /\ call.arg = "ok"
     /\ call.pre.status \in {STOPPED, ERROR}) =>
    /\ getStatus = RUNNING
    /\ Len(children) = Len(call.pre.children) + 1
    /\ process = Len(children)
    /\ process # call.pre.process
    /\ children[process].alive
    /\ ~children[process].killed
    /\ CallEntries = <<LogEntry(StartMsg, "system")>>
    /\ LogsFollow

C23_Witness ==
  /\ call.op = "start"
  /\ call.arg = "ok"
  /\ call.pre.status \in {STOPPED, ERROR}
  /\ Len(call.pre.children) >= 1
  /\ call.pre.logs # <<>>
  /\ Len(getLogs) = Len(call.pre.logs) + 1
  /\ getStatus = RUNNING

\* The events of a trace, in the order they were emitted.
Events(trace) ==
  SelectSeq(trace, LAMBDA e : e.kind \in {"log", "statusChange", "exit", "error"})

\* C24: as a log event reaches a listener the entry it carries is already
\* the newest entry of getLogs(); as a statusChange event reaches a listener
\* getStatus() already returns the status it carries; as an exit event
\* reaches a listener getStatus() is STOPPED.
C24_ChangedBeforeEmitted ==
  /\ Len(call.heard) = Len(Events(call.trace))
  /\ \A i \in 1..Len(call.heard) :
       LET h == call.heard[i]
           e == Events(call.trace)[i]
       IN  /\ h.kind = e.kind
           /\ h.kind = "log" =>
                /\ h.logs # <<>>
                /\ h.logs[Len(h.logs)] = e.val
           /\ h.kind = "statusChange" => h.status = e.val
           /\ h.kind = "exit" => h.status = STOPPED

C24_Witness ==
  /\ call.op = "exit"
  /\ call.pre.status = RUNNING
  /\ Len(call.heard) = 3
  /\ call.heard[1].kind = "log"
  /\ call.heard[1].status = RUNNING
  /\ call.heard[2].kind = "statusChange"
  /\ call.heard[3].kind = "exit"
  /\ call.heard[3].status = STOPPED

\* A buffer after the pushes of items, in order.
RECURSIVE PushAll(_, _)
PushAll(b, items) ==
  IF items = <<>> THEN b ELSE PushAll(push(b, Head(items)), Tail(items))

\* C25: once clear() has been called, the M values pushed since the last
\* clear() give a getAll() of exactly the last min(M, C) of them, in push
\* order, which is what a newly constructed buffer of the same capacity
\* gives after the same pushes; nothing pushed before the clear() is
\* returned.
C25_ClearedIsFresh ==
  clears > 0 =>
    /\ getAll(cb) = LastN(pushed, Min(Len(pushed), getCapacity(cb)))
    /\ getAll(cb) = getAll(PushAll(NewBuffer(given), pushed))
    /\ getSize(cb) = getSize(PushAll(NewBuffer(given), pushed))

C25_Witness ==
  /\ clears = 1
  /\ last.op = "push"
  /\ given > 1
  /\ npush - Len(pushed) > given
  /\ Len(pushed) >= given
  /\ getAll(cb) = pushed

====
